---- MODULE Spec2Model ----
(***************************************************************************)
(* The pair/list engine of markkurossi/sexpr (package scheme): mutable     *)
(* cons cells on a shared heap, the list traversal primitives Map /        *)
(* MapPairs with their location-aware error propagation, and the list      *)
(* builtins built on them.                                                 *)
(*                                                                         *)
(* A Value is the empty list (Go's nil interface), a number, or a          *)
(* reference to a pair cell.  The heap is the sequence of allocated cells; *)
(* a cell's address is its index, so two references are the same Go        *)
(* pointer exactly when they hold the same address.                        *)
(***************************************************************************)
EXTENDS Integers, Sequences, FiniteSets, TLC

\* ------------------------------------------------------------------ bounds
\* Pairs the builders (cons, list, the reader) may allocate.
MaxCells == 2
\* Numbers 1..MaxAtom are the atoms stored in pairs.
MaxAtom == 2
\* Source positions 1..MaxPoint (0 is the zero Point).
MaxPoint == 1

VARIABLES
    heap,   \* Seq of pair cells: [car, cdr, loc, from]
    res,    \* the last completed call: [op, args, val, err, text]
    tr      \* the traversal in progress (MapPairs' frame), or idle

vars == <<heap, res, tr>>

\* ------------------------------------------------------------------ values
Nil == [k |-> "nil", v |-> 0]
Atom(n) == [k |-> "atom", v |-> n]
Ref(a) == [k |-> "pair", v |-> a]

Atoms == {Atom(n) : n \in 1..MaxAtom}
Values(h) == {Nil} \cup Atoms \cup {Ref(a) : a \in 1..Len(h)}

\* The type assertion v.(Pair).
IsPair(v) == v.k = "pair"

\* ------------------------------------------------------------------ errors
NoErr == [isErr |-> FALSE, id |-> "nil", msg |-> ""]
\* fmt.Errorf / l.Errorf: a fresh error value carrying a message.
Errorf(msg) == [isErr |-> TRUE, id |-> "errorf", msg |-> msg]
ErrorInvalidList == [isErr |-> TRUE, id |-> "ErrorInvalidList", msg |-> "invalid list"]

\* ------------------------------------------------------------------ points
ZeroPoint == 0
Undefined(point) == point = ZeroPoint

\* ------------------------------------------------------------------ pairs
NewPair(car, cdr) == [car |-> car, cdr |-> cdr, loc |-> FALSE, from |-> ZeroPoint]
NewLocationPair(from, car, cdr) == [car |-> car, cdr |-> cdr, loc |-> TRUE, from |-> from]

Car(h, p) == h[p.v].car
Cdr(h, p) == h[p.v].cdr
From(h, p) == IF h[p.v].loc THEN h[p.v].from ELSE ZeroPoint

\* Mutant: the store lands in the other slot.
PairSetCarWrongSlot(h, p, x) == [h EXCEPT ![p.v].cdr = x]
PairSetCar(h, p, x) == [h EXCEPT ![p.v].car = x]
PairSetCdr(h, p, x) == [h EXCEPT ![p.v].cdr = x]

\* --------------------------------------------------------------- rendering
\* A number's decimal text (Number.String / Number.Scheme; %v of an int).
IntString(n) ==
    LET d == <<"0", "1", "2", "3", "4", "5", "6", "7", "8", "9">> IN
    IF n < 0 THEN "-" \o d[(-n) + 1] ELSE d[n + 1]

\* PlainPair.String: the loop walks the cdr chain; d bounds the nesting and s
\* the chain steps left, both of which only a cyclic structure exhausts (the
\* Go code does not return there).
Diverges == "#diverges"

RECURSIVE StringLoop(_, _, _, _, _, _)
PairString(h, pair, d) ==
    IF d = 0 THEN Diverges ELSE StringLoop(h, pair, TRUE, "(", d, Len(h))

\* Value.Scheme() of a non-nil value.
Scheme(h, v, d) ==
    IF IsPair(v) THEN PairString(h, v, d) ELSE IntString(v.v)

\* fmt.Sprintf("%v", v).
Sprintv(h, v, d) ==
    IF v = Nil THEN "<nil>" ELSE Scheme(h, v, d)

StringLoop(h, i, first, str, d, s) ==
    IF s = 0 THEN Diverges
    ELSE
    LET sep  == IF first THEN str ELSE str \o " "
        head == IF Car(h, i) = Nil
                THEN sep \o "nil"
                ELSE sep \o Scheme(h, Car(h, i), d - 1)
        cdr  == Cdr(h, i)
    IN  IF IsPair(cdr) THEN StringLoop(h, cdr, FALSE, head, d, s - 1)
        ELSE IF cdr = Nil THEN head \o ")"
        ELSE head \o " . " \o Sprintv(h, cdr, d - 1) \o ")"

\* Whether rendering v returns: no pair is reachable from itself through
\* heads and tails (String recurses into heads and loops along tails).
RECURSIVE NoCycle(_, _, _)
NoCycle(h, v, path) ==
    IF ~IsPair(v) THEN TRUE
    ELSE /\ v.v \notin path
         /\ NoCycle(h, Car(h, v), path \cup {v.v})
         /\ NoCycle(h, Cdr(h, v), path \cup {v.v})
Acyclic(h, v) == NoCycle(h, v, {})

\* pair.String() / pair.Scheme() as the builtins call it.
String(h, pair) == PairString(h, pair, Len(h) + 1)
Format(h, v) == Sprintv(h, v, Len(h) + 1)

\* ToScheme
ToScheme(h, v) == IF v = Nil THEN "'()" ELSE Scheme(h, v, Len(h) + 1)

\* ------------------------------------------------------------------ state
\* A call's (Value, error); text holds the string of a call that returns one.
NoRes == [op |-> "none", args |-> <<>>, val |-> Nil, err |-> NoErr, text |-> ""]
Result(op, args, val, err) ==
    [op |-> op, args |-> args, val |-> val, err |-> err, text |-> ""]
Text(op, args, text) ==
    [op |-> op, args |-> args, val |-> Nil, err |-> NoErr, text |-> text]

\* MapPairs' frame: the caller (fn), its argument (list), the loop variables
\* (pair, idx), the callback's invocations so far (calls), what it last
\* returned (cberr) and what it has captured (count, result), and the error
\* MapPairs returns (err).  twice and orig are history: whether the list being
\* reversed is what the previous call, a reverse of orig, returned.
Idle ==
    [pc |-> "idle", fn |-> "none", list |-> Nil, pair |-> Nil, idx |-> 0,
     calls |-> <<>>, cberr |-> NoErr, count |-> 0, result |-> Nil, err |-> NoErr,
     twice |-> FALSE, orig |-> Nil]

Init ==
    /\ heap = <<>>
    /\ res = NoRes
    /\ tr = Idle

\* ---------------------------------------------------------------- builders
\* cons
Cons ==
    /\ tr.pc = "idle"
    /\ Len(heap) < MaxCells
    /\ \E a \in Values(heap), b \in Values(heap) :
        /\ heap' = Append(heap, NewPair(a, b))
        /\ res' = Result("cons", <<a, b>>, Ref(Len(heap) + 1), NoErr)
    /\ UNCHANGED tr

\* The reader's pair, which carries the source position it was read at
\* (a defined one: positions count from 1).
ReadPair ==
    /\ tr.pc = "idle"
    /\ Len(heap) < MaxCells
    /\ \E from \in 1..MaxPoint, a \in Values(heap), b \in Values(heap) :
        /\ heap' = Append(heap, NewLocationPair(from, a, b))
        /\ res' = Result("read", <<a, b>>, Ref(Len(heap) + 1), NoErr)
    /\ UNCHANGED tr

\* list: result = NewPair(args[i], result) for i = len(args)-1 .. 0.
RECURSIVE ListLoop(_, _, _, _)
ListLoop(h, args, i, result) ==
    IF i >= 1
    THEN ListLoop(Append(h, NewPair(args[i], result)), args, i - 1, Ref(Len(h) + 1))
    ELSE [heap |-> h, val |-> result]

ArgLists(h, n) == UNION {[1..m -> Values(h)] : m \in 0..n}

List ==
    /\ tr.pc = "idle"
    /\ \E args \in ArgLists(heap, MaxCells - Len(heap)) :
        LET r == ListLoop(heap, args, Len(args), Nil) IN
        /\ heap' = r.heap
        /\ res' = Result("list", args, r.val, NoErr)
    /\ UNCHANGED tr

\* set-car!
SetCar ==
    /\ tr.pc = "idle"
    /\ \E p \in Values(heap), x \in Values(heap) :
        IF ~IsPair(p)
        THEN /\ res' = Result("set-car!", <<p, x>>, Nil, Errorf("not a pair: " \o Format(heap, p)))
             /\ UNCHANGED heap
        ELSE /\ heap' = PairSetCar(heap, p, x)
             /\ res' = Result("set-car!", <<p, x>>, Nil, NoErr)
    /\ UNCHANGED tr

\* set-cdr!
SetCdr ==
    /\ tr.pc = "idle"
    /\ \E p \in Values(heap), x \in Values(heap) :
        IF ~IsPair(p)
        THEN /\ res' = Result("set-cdr!", <<p, x>>, Nil, Errorf("not a pair: " \o Format(heap, p)))
             /\ UNCHANGED heap
        ELSE /\ heap' = PairSetCdr(heap, p, x)
             /\ res' = Result("set-cdr!", <<p, x>>, Nil, NoErr)
    /\ UNCHANGED tr

Next ==
    \/ Cons
    \/ List
    \/ SetCar
    \/ SetCdr

Spec == Init /\ [][Next]_vars

\* --------------------------------------------------------------- traversal
\* Boolean(b), NewNumber(0, n)
Boolean(b) == [k |-> "bool", v |-> IF b THEN 1 ELSE 0]
NewNumber(n) == Atom(n)

\* The error a failing caller-supplied callback returns.
CallbackErr == [isErr |-> TRUE, id |-> "callback", msg |-> "callback failed"]

\* Point.String
PointString(point) == "pos" \o IntString(point)

\* Loop iterations a traversal is followed for (only a cyclic chain gets there).
MaxIdx == MaxCells + 2
\* Cells the heap holds at most: the builders' and those of two reverses.
MaxHeap == 3 * MaxCells

\* MapPairs up to its loop: nil is the empty list, anything else but a pair is
\* an invalid list.
\* Mutant: a non-pair argument is taken for the empty list.
MapPairsEnterLax(fn, list) ==
    IF ~IsPair(list)
    THEN [Idle EXCEPT !.pc = "ret", !.fn = fn, !.list = list, !.err = NoErr]
    ELSE [Idle EXCEPT !.pc = "loop", !.fn = fn, !.list = list, !.pair = list]
MapPairsEnter(fn, list) ==
    IF list = Nil
    THEN [Idle EXCEPT !.pc = "ret", !.fn = fn, !.list = list, !.err = NoErr]
    ELSE IF ~IsPair(list)
    THEN [Idle EXCEPT !.pc = "ret", !.fn = fn, !.list = list, !.err = ErrorInvalidList]
    ELSE [Idle EXCEPT !.pc = "loop", !.fn = fn, !.list = list, !.pair = list]

\* Mutant: each element is consed onto the empty list, not onto the result.
ReverseFuncDropsResult(h, v, result) ==
    [heap |-> Append(h, NewPair(v, Nil)), result |-> Ref(Len(h) + 1)]
\* reverse's function: result = NewPair(v, result).
ReverseFunc(h, v, result) ==
    [heap |-> Append(h, NewPair(v, result)), result |-> Ref(Len(h) + 1)]

\* Mutant: the prefix is added whatever the position.
LocatedAlways(point, err) == Errorf(PointString(point) \o ": " \o err.msg)
\* The error MapPairs returns for a callback error at pair.
Located(point, err) ==
    IF Undefined(point) THEN err ELSE Errorf(PointString(point) \o ": " \o err.msg)

\* Mutant: a step bound; a chain longer than the heap is rejected as invalid.
AdvanceStepBound(h, t) ==
    LET cdr == Cdr(h, t.pair) IN
    IF IsPair(cdr) /\ t.idx >= Len(h) THEN [t EXCEPT !.pc = "ret", !.err = ErrorInvalidList]
    ELSE IF IsPair(cdr) THEN [t EXCEPT !.pair = cdr, !.idx = t.idx + 1]
    ELSE IF cdr = Nil THEN [t EXCEPT !.pc = "ret", !.pair = Nil, !.idx = t.idx + 1, !.err = NoErr]
    ELSE [t EXCEPT !.pc = "ret", !.err = ErrorInvalidList]
\* Mutant: the loop moves to the next pair without counting it.
AdvanceNoCount(h, t) ==
    LET cdr == Cdr(h, t.pair) IN
    IF IsPair(cdr) THEN [t EXCEPT !.pair = cdr]
    ELSE IF cdr = Nil THEN [t EXCEPT !.pc = "ret", !.pair = Nil, !.err = NoErr]
    ELSE [t EXCEPT !.pc = "ret", !.err = ErrorInvalidList]
\* The switch on pair.Cdr() after a successful callback, and the loop's idx++.
Advance(h, t) ==
    LET cdr == Cdr(h, t.pair) IN
    IF IsPair(cdr) THEN [t EXCEPT !.pair = cdr, !.idx = t.idx + 1]
    ELSE IF cdr = Nil THEN [t EXCEPT !.pc = "ret", !.pair = Nil, !.idx = t.idx + 1, !.err = NoErr]
    ELSE [t EXCEPT !.pc = "ret", !.err = ErrorInvalidList]

\* One iteration of MapPairs' loop.
LoopBody(h, t, o) ==
    LET t1 == [t EXCEPT !.calls = Append(t.calls, <<t.idx, o.arg>>), !.cberr = o.err,
                        !.count = o.count, !.result = o.result]
    IN  IF o.err # NoErr
        THEN [t1 EXCEPT !.pc = "ret", !.err = Located(From(h, t.pair), o.err)]
        ELSE Advance(h, t1)

\* MapPairs run from frame t to its return with a function that fails at its
\* invocation number fail (never, if fail < 0).  A chain without a cycle has
\* at most Len(h) pairs, so a frame still in the loop after more iterations
\* is one whose MapPairs does not return.
RECURSIVE MapPairsRun(_, _, _)
MapPairsRun(h, t, fail) ==
    IF t.pc # "loop" \/ t.idx > Len(h) THEN t
    ELSE MapPairsRun(h,
            LoopBody(h, t, [err |-> IF t.idx = fail THEN CallbackErr ELSE NoErr,
                            heap |-> h, arg |-> t.pair,
                            count |-> t.count, result |-> t.result]),
            fail)

\* The errors MapPairs(g, list) may return to a caller-supplied function that
\* runs it, g being caller-supplied too.
NestedErrs(h, list) ==
    {r.err : r \in {t \in {MapPairsRun(h, MapPairsEnter("MapPairs", list), fail) :
                                fail \in (-1)..(Len(h) - 1)} : t.pc = "ret"}}

\* What one invocation f(idx, pair) may do, by caller: the error returned,
\* the argument the caller's function received, and the caller's captured
\* variables after it.  Map hands its function pair.Car(); ListLength counts;
\* reverse conses the element onto its result; a caller-supplied function
\* may fail, and may itself traverse the element it is given ("Nested":
\* Map with a function that returns MapPairs(g, v)).
Callback(fn, h, t) ==
    LET arg == IF fn = "MapPairs" THEN t.pair ELSE Car(h, t.pair)
        out(e, h2, count, result) ==
            [err |-> e, heap |-> h2, arg |-> arg, count |-> count, result |-> result]
    IN  CASE fn \in {"Map", "MapPairs"} ->
                {out(e, h, t.count, t.result) : e \in {NoErr, CallbackErr}}
          [] fn = "Nested" ->
                {out(e, h, t.count, t.result) : e \in NestedErrs(h, arg)}
          [] fn \in {"list?", "length"} ->
                {out(NoErr, h, t.count + 1, t.result)}
          [] fn = "reverse" ->
                {out(NoErr, ReverseFunc(h, arg, t.result).heap, t.count,
                     ReverseFunc(h, arg, t.result).result)}

\* Map(f, list)
MapCall ==
    /\ tr.pc = "idle"
    /\ \E list \in Values(heap) : tr' = MapPairsEnter("Map", list)
    /\ res' = NoRes
    /\ UNCHANGED heap

\* MapPairs(f, list)
MapPairsCall ==
    /\ tr.pc = "idle"
    /\ \E list \in Values(heap) : tr' = MapPairsEnter("MapPairs", list)
    /\ res' = NoRes
    /\ UNCHANGED heap

Iterate ==
    /\ tr.pc = "loop"
    /\ tr.idx < MaxIdx
    /\ \E o \in Callback(tr.fn, heap, tr) :
        /\ tr' = LoopBody(heap, tr, o)
        /\ heap' = o.heap
    /\ UNCHANGED res

\* Mutant: the count is returned whatever Map's error.
ListLengthIgnoresErr(t) == [count |-> t.count, ok |-> TRUE]
\* ListLength's (count, ok) from Map's error.
ListLength(t) == IF t.err # NoErr THEN [count |-> 0, ok |-> FALSE] ELSE [count |-> t.count, ok |-> TRUE]

\* What the caller makes of MapPairs' return.
Returned(h, t) ==
    CASE t.fn \in {"Map", "MapPairs", "Nested"} -> Result(t.fn, <<t.list>>, Nil, t.err)
      [] t.fn = "list?" -> Result("list?", <<t.list>>, Boolean(ListLength(t).ok), NoErr)
      [] t.fn = "length" ->
            IF ~ListLength(t).ok
            THEN Result("length", <<t.list>>, Nil,
                        Errorf("length: not a list: " \o Format(h, t.list)))
            ELSE Result("length", <<t.list>>, NewNumber(ListLength(t).count), NoErr)
      [] t.fn = "reverse" ->
            IF t.err # NoErr
            THEN Result("reverse", <<t.list>>, Nil, Errorf("reverse: " \o t.err.msg))
            ELSE Result("reverse", <<t.list>>, t.result, NoErr)

\* (formatting the error of length does not return on a cyclic value)
Return ==
    /\ tr.pc = "ret"
    /\ (tr.fn = "length" /\ tr.err # NoErr) => Acyclic(heap, tr.list)
    /\ res' = Returned(heap, tr)
    /\ tr' = Idle
    /\ UNCHANGED heap

NextMap ==
    \/ Cons
    \/ ReadPair
    \/ SetCdr
    \/ MapCall
    \/ MapPairsCall
    \/ Iterate
    \/ Return

SpecMap == Init /\ [][NextMap]_vars

\* ---------------------------------------------------------------- indexing
\* The package functions Car(pair, ok) and Cdr(pair, ok), called with ok = true.
CarOk(h, pair) ==
    IF ~IsPair(pair) THEN [v |-> pair, ok |-> FALSE] ELSE [v |-> Car(h, pair), ok |-> TRUE]
CdrOk(h, pair) ==
    IF ~IsPair(pair) THEN [v |-> pair, ok |-> FALSE] ELSE [v |-> Cdr(h, pair), ok |-> TRUE]

\* for i = 0; i < k && pair != nil; i++ { pair, ok = Cdr(pair, true) ... }
RECURSIVE TailLoop(_, _, _, _)
TailLoop(h, pair, i, k) ==
    IF i < k /\ pair # Nil
    THEN IF CdrOk(h, pair).ok
         THEN TailLoop(h, CdrOk(h, pair).v, i + 1, k)
         ELSE [pair |-> CdrOk(h, pair).v, i |-> i, ok |-> FALSE]
    ELSE [pair |-> pair, i |-> i, ok |-> TRUE]

\* args[1].(Number)
IsNumber(v) == v.k = "atom"

OutOfRange(name, h, k, list) ==
    Errorf(name \o ": index " \o IntString(k) \o " out of range for list " \o Format(h, list))

ListTailNative(h, list, kn) ==
    IF ~IsNumber(kn)
    THEN Result("list-tail", <<list, kn>>, Nil,
                Errorf("list-tail: invalid index: " \o Format(h, kn)))
    ELSE
    LET k == kn.v
        r == TailLoop(h, list, 0, k)
    IN  IF ~r.ok
        THEN Result("list-tail", <<list, kn>>, Nil,
                    Errorf("list-tail: invalid list: " \o Format(h, r.pair)))
        ELSE IF r.i < k
        THEN Result("list-tail", <<list, kn>>, Nil, OutOfRange("list-tail", h, k, list))
        ELSE Result("list-tail", <<list, kn>>, r.pair, NoErr)

ListRefNative(h, list, kn) ==
    IF ~IsNumber(kn)
    THEN Result("list-ref", <<list, kn>>, Nil,
                Errorf("list-ref: invalid index: " \o Format(h, kn)))
    ELSE
    LET k == kn.v
        r == TailLoop(h, list, 0, k)
    IN  IF ~r.ok
        THEN Result("list-ref", <<list, kn>>, Nil,
                    Errorf("list-ref: invalid list: " \o Format(h, r.pair)))
        ELSE IF r.pair = Nil
        THEN Result("list-ref", <<list, kn>>, Nil, OutOfRange("list-ref", h, k, list))
        ELSE IF ~CarOk(h, r.pair).ok
        THEN Result("list-ref", <<list, kn>>, Nil,
                    Errorf("list-ref: invalid list: " \o Format(h, r.pair)))
        ELSE Result("list-ref", <<list, kn>>, CarOk(h, r.pair).v, NoErr)

\* The indices tried: every integer from below 0 to beyond the longest list,
\* and the empty list as a non-number.
Indices == {Nil} \cup {Atom(k) : k \in (-1)..(MaxCells + 2)}

ListTail ==
    /\ tr.pc = "idle"
    /\ \E list \in Values(heap), kn \in Indices :
        /\ Acyclic(heap, list)
        /\ res' = ListTailNative(heap, list, kn)
    /\ UNCHANGED <<heap, tr>>

ListRef ==
    /\ tr.pc = "idle"
    /\ \E list \in Values(heap), kn \in Indices :
        /\ Acyclic(heap, list)
        /\ res' = ListRefNative(heap, list, kn)
    /\ UNCHANGED <<heap, tr>>

NextIdx ==
    \/ Cons
    \/ List
    \/ ListTail
    \/ ListRef

SpecIdx == Init /\ [][NextIdx]_vars

\* --------------------------------------------------------------- predicates
\* null?
NullP ==
    /\ tr.pc = "idle"
    /\ \E obj \in Values(heap) : res' = Result("null?", <<obj>>, Boolean(obj = Nil), NoErr)
    /\ UNCHANGED <<heap, tr>>

\* list?: ListLength(args[0]), which is Map with the counting function.
ListPCall ==
    /\ tr.pc = "idle"
    /\ \E obj \in Values(heap) : tr' = MapPairsEnter("list?", obj)
    /\ res' = NoRes
    /\ UNCHANGED heap

\* length
LengthCall ==
    /\ tr.pc = "idle"
    /\ \E obj \in Values(heap) : tr' = MapPairsEnter("length", obj)
    /\ res' = NoRes
    /\ UNCHANGED heap

NextPred ==
    \/ Cons
    \/ List
    \/ SetCar
    \/ SetCdr
    \/ NullP
    \/ ListPCall
    \/ LengthCall
    \/ Iterate
    \/ Return

SpecPred == Init /\ [][NextPred]_vars

\* ----------------------------------------------------------------- equality
\* PlainPair.Eq / LocationPair.Eq: o is a pointer of the same type, and the
\* same pointer.
PairEq(h, pair, o) ==
    /\ IsPair(o)
    /\ h[o.v].loc = h[pair.v].loc
    /\ pair.v = o.v

\* Equal(a, b) and PlainPair.Equal, which call each other down the heads and
\* tails.  calls holds the comparisons in progress: meeting one of them again
\* is a recursion that never ends, which Go ends with a stack overflow.
RECURSIVE Equal(_, _, _, _)
RECURSIVE PairEqual(_, _, _, _)
\* Mutant: only the heads are compared.
PairEqualHeadsOnly(h, pair, o, calls) ==
    IF ~IsPair(o) THEN "false"
    ELSE IF <<pair.v, o.v>> \in calls THEN "overflow"
    ELSE Equal(h, Car(h, pair), Car(h, o), calls \cup {<<pair.v, o.v>>})
PairEqual(h, pair, o, calls) ==
    IF ~IsPair(o) THEN "false"
    ELSE IF <<pair.v, o.v>> \in calls THEN "overflow"
    ELSE LET inner == calls \cup {<<pair.v, o.v>>}
             heads == Equal(h, Car(h, pair), Car(h, o), inner)
         IN  IF heads # "true" THEN heads
             ELSE Equal(h, Cdr(h, pair), Cdr(h, o), inner)

\* Number.Equal
NumberEqual(a, b) == IF b.k = a.k /\ b.v = a.v THEN "true" ELSE "false"

Equal(h, a, b, calls) ==
    IF a = Nil /\ b = Nil THEN "true"
    ELSE IF a = Nil \/ b = Nil THEN "false"
    ELSE IF IsPair(a) THEN PairEqual(h, a, b, calls)
    ELSE NumberEqual(a, b)

\* The Go runtime's fatal error for a goroutine stack that outgrows its limit.
StackOverflow == [isErr |-> TRUE, id |-> "fatal", msg |-> "stack overflow"]

Pairs(h) == {Ref(a) : a \in 1..Len(h)}

\* pair.Eq(o)
EqCall ==
    /\ tr.pc = "idle"
    /\ \E pair \in Pairs(heap), o \in Values(heap) :
        res' = Result("Eq", <<pair, o>>, Boolean(PairEq(heap, pair, o)), NoErr)
    /\ UNCHANGED <<heap, tr>>

\* pair.Equal(o)
EqualCall ==
    /\ tr.pc = "idle"
    /\ \E pair \in Pairs(heap), o \in Values(heap) :
        LET r == PairEqual(heap, pair, o, {}) IN
        res' = IF r = "overflow"
               THEN Result("Equal", <<pair, o>>, Nil, StackOverflow)
               ELSE Result("Equal", <<pair, o>>, Boolean(r = "true"), NoErr)
    /\ UNCHANGED <<heap, tr>>

NextEq ==
    \/ Cons
    \/ ReadPair
    \/ SetCar
    \/ SetCdr
    \/ EqCall
    \/ EqualCall

SpecEq == Init /\ [][NextEq]_vars

\* ---------------------------------------------------------- String, reverse
\* pair.String()
StringCall ==
    /\ tr.pc = "idle"
    /\ \E pair \in Pairs(heap) :
        /\ Acyclic(heap, pair)
        /\ res' = Text("String", <<pair>>, String(heap, pair))
    /\ UNCHANGED <<heap, tr>>

\* ToScheme(v)
ToSchemeCall ==
    /\ tr.pc = "idle"
    /\ \E obj \in Values(heap) :
        /\ Acyclic(heap, obj)
        /\ res' = Text("ToScheme", <<obj>>, ToScheme(heap, obj))
    /\ UNCHANGED <<heap, tr>>

NextStr ==
    \/ Cons
    \/ List
    \/ StringCall
    \/ ToSchemeCall

SpecStr == Init /\ [][NextStr]_vars

\* reverse: Map with the function that conses each element onto the result.
ReverseCall ==
    /\ tr.pc = "idle"
    /\ Len(heap) + MaxCells <= MaxHeap
    /\ \E list \in Values(heap) :
        tr' = [MapPairsEnter("reverse", list) EXCEPT
                  !.twice = (res.op = "reverse" /\ res.err = NoErr /\ res.val = list),
                  !.orig = IF res.op = "reverse" THEN res.args[1] ELSE Nil]
    /\ res' = NoRes
    /\ UNCHANGED heap

NextRev ==
    \/ Cons
    \/ List
    \/ ReverseCall
    \/ Iterate
    \/ Return

SpecRev == Init /\ [][NextRev]_vars

\* ------------------------------------------------------- nested traversal
\* Map(f, list) with a caller's f that returns MapPairs(g, v) for the element
\* v it is given.
NestedMapCall ==
    /\ tr.pc = "idle"
    /\ \E list \in Values(heap) : tr' = MapPairsEnter("Nested", list)
    /\ res' = NoRes
    /\ UNCHANGED heap

NextNest ==
    \/ Cons
    \/ ReadPair
    \/ MapCall
    \/ MapPairsCall
    \/ NestedMapCall
    \/ Iterate
    \/ Return

SpecNest == Init /\ [][NextNest]_vars

\* ------------------------------------------------------- cyclic traversal
\* set-cdr! on the pairs cons built, before a reverse has added its own.
SetCdrBuilt == Len(heap) <= MaxCells /\ SetCdr

NextCyc ==
    \/ Cons
    \/ SetCdrBuilt
    \/ MapCall
    \/ MapPairsCall
    \/ ListPCall
    \/ LengthCall
    \/ ReverseCall
    \/ Iterate
    \/ Return

\* The program is one thread that runs whatever step comes next: a loop
\* iteration that can run does, and so does a return.
SpecCyc == Init /\ [][NextCyc]_vars /\ WF_vars(Iterate) /\ WF_vars(Return)

\* ------------------------------------------------------------------ claims
\* The vocabulary of the properties: a value's pair chain, as the glossary
\* defines lists.  Walk follows the tails from v and gives the cells met, in
\* order, and how the chain ends: in the empty list ("nil", a proper list), in
\* another non-pair ("dotted": an improper list, or v itself is an atom), or
\* in a cell already met ("cycle").
RECURSIVE Walk(_, _, _)
Walk(h, v, cells) ==
    IF ~IsPair(v)
    THEN [cells |-> cells, end |-> IF v = Nil THEN "nil" ELSE "dotted", tail |-> v]
    ELSE IF \E i \in 1..Len(cells) : cells[i] = v.v
    THEN [cells |-> cells, end |-> "cycle", tail |-> v]
    ELSE Walk(h, h[v.v].cdr, Append(cells, v.v))

Chain(h, v) == Walk(h, v, <<>>)
ProperList(h, v) == Chain(h, v).end = "nil"
\* The elements of a chain: the heads of its cells, in order.
Elems(h, v) == [i \in 1..Len(Chain(h, v).cells) |-> h[Chain(h, v).cells[i]].car]
UserTraversal == tr.fn \in {"Map", "MapPairs"}

\* C1: when Map / MapPairs return from a proper list of n elements with no
\* callback failure, the callback has been invoked exactly n times, the i-th
\* time with index i (from 0) and the i-th element (Map) or the i-th pair
\* (MapPairs), and the error returned is nil; n = 0 means no invocation.
C1_MapVisitsEach ==
    (tr.pc = "ret" /\ UserTraversal /\ tr.cberr = NoErr /\ ProperList(heap, tr.list)) =>
        LET cells == Chain(heap, tr.list).cells IN
        /\ tr.err = NoErr
        /\ Len(tr.calls) = Len(cells)
        /\ \A i \in 1..Len(cells) :
            tr.calls[i] = <<i - 1, IF tr.fn = "Map" THEN heap[cells[i]].car ELSE Ref(cells[i])>>

\* C1 witness: Map has returned from a two-element list of different
\* elements, having called back for both.
C1_Witness ==
    /\ tr.pc = "ret" /\ tr.fn = "Map" /\ tr.err = NoErr
    /\ ProperList(heap, tr.list)
    /\ Len(tr.calls) = 2
    /\ tr.calls[1][2] # tr.calls[2][2]

\* C2: with no callback failure, Map / MapPairs return ErrorInvalidList
\* exactly when the argument is neither the empty list nor a pair or its
\* chain ends in a tail that is neither; from every other acyclic argument
\* they return nil.
C2_InvalidListIffImproper ==
    (tr.pc = "ret" /\ UserTraversal /\ tr.cberr = NoErr /\ Chain(heap, tr.list).end # "cycle") =>
        tr.err = IF Chain(heap, tr.list).end = "dotted" THEN ErrorInvalidList ELSE NoErr

\* C2 witness: MapPairs has returned ErrorInvalidList after two pairs whose
\* last tail is a number.
C2_Witness ==
    /\ tr.pc = "ret" /\ tr.fn = "MapPairs" /\ tr.err = ErrorInvalidList
    /\ tr.cberr = NoErr
    /\ Len(tr.calls) = 2
    /\ Chain(heap, tr.list).tail \in Atoms

\* C3: the step in which the callback fails at index i ends the loop with
\* i + 1 invocations made, the last one for index i, and MapPairs' error is
\* "<position>: <error>" when the current pair's start position is defined
\* and the callback's error itself when it is not; the only step that
\* follows hands that error to the caller, with no further invocation.
C3_CallbackErrorStops ==
    [][/\ (tr.cberr = NoErr /\ tr'.cberr # NoErr) =>
            LET point == IF heap[tr.pair.v].loc THEN heap[tr.pair.v].from ELSE 0 IN
            /\ tr'.pc = "ret"
            /\ tr'.calls = Append(tr.calls, tr'.calls[Len(tr'.calls)])
            /\ tr'.calls[Len(tr'.calls)][1] = tr.idx
            /\ Len(tr'.calls) = tr.idx + 1
            /\ tr'.err = IF point # 0
                         THEN Errorf(PointString(point) \o ": " \o tr'.cberr.msg)
                         ELSE tr'.cberr
       /\ (tr.cberr # NoErr) =>
            /\ tr' = Idle
            /\ res' = Result(tr.fn, <<tr.list>>, Nil, tr.err)
    ]_vars

\* C3 witness: the callback failed at index 1, on a pair the reader built,
\* and the error carries that pair's position.
C3_Witness ==
    /\ tr.pc = "ret" /\ tr.cberr = CallbackErr
    /\ tr.idx = 1
    /\ heap[tr.pair.v].loc
    /\ tr.err = Errorf("pos1: callback failed")
\* C4: set-car!(p, x) on a pair replaces only the head of that one cell and
\* set-cdr!(p, x) only its tail: the cell's other slot and position, every
\* other cell and the number of cells are unchanged, every reference to p
\* reads the new content, and the call returns nil with no error; when p is
\* not a pair the call returns an error and the heap is unchanged.
C4_SetFrame ==
    [][(res'.op \in {"set-car!", "set-cdr!"}) =>
        LET p == res'.args[1]
            x == res'.args[2]
        IN  IF IsPair(p)
            THEN /\ res'.err = NoErr
                 /\ res'.val = Nil
                 /\ Len(heap') = Len(heap)
                 /\ \A q \in 1..Len(heap) : q # p.v => heap'[q] = heap[q]
                 /\ heap'[p.v].loc = heap[p.v].loc
                 /\ heap'[p.v].from = heap[p.v].from
                 /\ IF res'.op = "set-car!"
                    THEN /\ heap'[p.v].cdr = heap[p.v].cdr
                         /\ \A r \in Values(heap') : r.v = p.v /\ IsPair(r) => Car(heap', r) = x
                    ELSE /\ heap'[p.v].car = heap[p.v].car
                         /\ \A r \in Values(heap') : r.v = p.v /\ IsPair(r) => Cdr(heap', r) = x
            ELSE /\ res'.err.isErr
                 /\ heap' = heap
    ]_vars

\* C4 witness: set-car! has replaced the head of a pair that another pair
\* also refers to, leaving its tail as it was built.
C4_Witness ==
    /\ res.op = "set-car!"
    /\ res.err = NoErr
    /\ Len(heap) = 2
    /\ res.args = <<Ref(1), Atom(2)>>
    /\ heap[2].car = Ref(1)
    /\ heap[1] = NewPair(Atom(2), Atom(1))

\* C5: for a proper list of n elements and an integer k, list-tail returns
\* the k-th tail (the list for k = 0, the empty list for k = n) when
\* 0 <= k <= n, and for every other k fails with the index-out-of-range
\* error naming k and the original list.
C5_ListTail ==
    (res.op = "list-tail" /\ IsNumber(res.args[2]) /\ ProperList(heap, res.args[1])) =>
        LET list  == res.args[1]
            k     == res.args[2].v
            cells == Chain(heap, list).cells
            n     == Len(cells)
        IN  IF 0 <= k /\ k <= n
            THEN /\ res.err = NoErr
                 /\ res.val = IF k = n THEN Nil ELSE Ref(cells[k + 1])
            ELSE /\ res.err.isErr
                 /\ res.err.msg = "list-tail: index " \o IntString(k)
                                  \o " out of range for list " \o Format(heap, list)

\* C6: for a proper list of n elements and an integer k, list-ref returns
\* the element at position k when 0 <= k < n, and for every other k
\* (k = n and any index on the empty list included) fails with an error
\* naming the index and the list.
C6_ListRef ==
    (res.op = "list-ref" /\ IsNumber(res.args[2]) /\ ProperList(heap, res.args[1])) =>
        LET list  == res.args[1]
            k     == res.args[2].v
            cells == Chain(heap, list).cells
            n     == Len(cells)
        IN  IF 0 <= k /\ k < n
            THEN /\ res.err = NoErr
                 /\ res.val = heap[cells[k + 1]].car
            ELSE /\ res.err.isErr
                 /\ res.err.msg = "list-ref: index " \o IntString(k)
                                  \o " out of range for list " \o Format(heap, list)

\* C7: null? is true exactly for the empty list; on a value whose chain is
\* acyclic, list? returns true for the empty list and a proper list and
\* false, with no error, for an atom and a dotted chain; and length returns
\* the number of elements exactly when the value is such a list, and an
\* error otherwise.
C7_ListPredicates ==
    /\ res.op = "null?" =>
        res.err = NoErr /\ res.val = Boolean(res.args[1] = Nil)
    /\ (res.op = "list?" /\ Chain(heap, res.args[1]).end # "cycle") =>
        res.err = NoErr /\ res.val = Boolean(ProperList(heap, res.args[1]))
    /\ (res.op = "length" /\ Chain(heap, res.args[1]).end # "cycle") =>
        IF ProperList(heap, res.args[1])
        THEN res.err = NoErr /\ res.val = NewNumber(Len(Chain(heap, res.args[1]).cells))
        ELSE res.err.isErr /\ res.val = Nil

\* C7 witness: length has counted the two elements of a list that set-cdr!
\* closed (its first cell was allocated before its second).
C7_Witness ==
    /\ res.op = "length" /\ res.val = NewNumber(2)
    /\ res.args = <<Ref(1)>>
    /\ heap[1].cdr = Ref(2)

\* The structure of an acyclic value as text, one text per structure.
RECURSIVE Shape(_, _)
Shape(h, v) ==
    IF v = Nil THEN "()"
    ELSE IF IsPair(v) THEN "(" \o Shape(h, Car(h, v)) \o " . " \o Shape(h, Cdr(h, v)) \o ")"
    ELSE IntString(v.v)

\* What every Eq and every Equal on pairs answers: Eq is true exactly for
\* the same cell; Equal with a non-pair (the empty list included) is false;
\* Equal of two acyclic values is true exactly when they have the same
\* structure in the heap as it is now.
EqAnswers ==
    /\ res.op = "Eq" =>
        res.val = Boolean(IsPair(res.args[2]) /\ res.args[2].v = res.args[1].v)
    /\ (res.op = "Equal" /\ ~IsPair(res.args[2])) => res.val = Boolean(FALSE)
    /\ (res.op = "Equal" /\ Acyclic(heap, res.args[1]) /\ Acyclic(heap, res.args[2])) =>
        /\ res.err = NoErr
        /\ res.val = Boolean(IsPair(res.args[2])
                             /\ Shape(heap, res.args[1]) = Shape(heap, res.args[2]))

\* C8 (as amended): Eq on pairs is reference identity and Equal structural,
\* on the heap as mutated so far; a pair is Eq to itself through any alias,
\* and Equal to itself when no pair is reachable from itself through it.
C8_EqIdentityEqualStructure ==
    /\ EqAnswers
    /\ (res.op = "Equal" /\ res.args[2] = res.args[1] /\ Acyclic(heap, res.args[1])) =>
        res.val = Boolean(TRUE)

\* C8 (as claimed): the same, with every pair Equal to itself.
C8_Original ==
    /\ EqAnswers
    /\ (res.op = "Equal" /\ res.args[2] = res.args[1]) => res.val = Boolean(TRUE)

\* C8 witness: two cells, one built by cons and one by the reader, with the
\* same head and tail: Equal, and not the same cell.
C8_Witness ==
    /\ res.op = "Equal" /\ res.val = Boolean(TRUE)
    /\ res.args = <<Ref(1), Ref(2)>>
    /\ heap[1].loc # heap[2].loc
    /\ heap[1].car \in Atoms /\ heap[1].cdr = Nil

\* The canonical render: the empty list is "()", a number its digits, a pair
\* chain "(" and its elements' renders separated by single spaces, then ")"
\* or " . ", the final tail's render and ")".
RECURSIVE Canonical(_, _)
RECURSIVE CanonicalElems(_, _, _)
CanonicalElems(h, cells, i) ==
    IF i > Len(cells) THEN ""
    ELSE (IF i = 1 THEN "" ELSE " ") \o Canonical(h, h[cells[i]].car)
         \o CanonicalElems(h, cells, i + 1)
Canonical(h, v) ==
    IF v = Nil THEN "()"
    ELSE IF ~IsPair(v) THEN IntString(v.v)
    ELSE "(" \o CanonicalElems(h, Chain(h, v).cells, 1)
         \o (IF Chain(h, v).end = "nil" THEN ")"
             ELSE " . " \o Canonical(h, Chain(h, v).tail) \o ")")

\* C9: the render of a pair chain is the canonical one, every element in
\* its own canonical form, an element that is the empty list as "()".
C9_CanonicalRender ==
    res.op = "String" => res.text = Canonical(heap, res.args[1])

\* The sequence s backwards.
Backwards(s) == [i \in 1..Len(s) |-> s[Len(s) + 1 - i]]

\* C10: reverse of a proper list of n elements returns a proper list of n
\* pairs allocated by this call, with the input's elements in the opposite
\* order (the empty list for the empty list); reverse of anything else
\* returns an error and no list; no step of a reverse changes a cell that
\* existed before it; and the reverse of a reverse's result is Equal to the
\* list first reversed.
C10_Reverse ==
    /\ [](/\ (res.op = "reverse" /\ ProperList(heap, res.args[1])) =>
                LET list == res.args[1]
                    n    == Len(Chain(heap, list).cells)
                    out  == Chain(heap, res.val)
                IN  /\ res.err = NoErr
                    /\ out.end = "nil"
                    /\ Len(out.cells) = n
                    /\ \A i \in 1..n :
                        /\ out.cells[i] > Len(heap) - n
                        /\ out.cells[i] \notin {Chain(heap, list).cells[j] : j \in 1..n}
                    /\ Elems(heap, res.val) = Backwards(Elems(heap, list))
                    /\ (n = 0 => res.val = Nil)
          /\ (res.op = "reverse" /\ ~ProperList(heap, res.args[1])) =>
                res.err.isErr /\ res.val = Nil
          /\ (tr.pc = "ret" /\ tr.fn = "reverse" /\ tr.twice /\ tr.err = NoErr) =>
                Equal(heap, tr.result, tr.orig, {}) = "true")
    /\ [][(tr.fn = "reverse" \/ tr'.fn = "reverse") =>
            /\ Len(heap') >= Len(heap)
            /\ \A a \in 1..Len(heap) : heap'[a] = heap[a]]_vars

\* C10 witness: a reverse of a reverse has returned a list of two different
\* elements.
C10_Witness ==
    /\ tr.pc = "ret" /\ tr.fn = "reverse" /\ tr.twice /\ tr.err = NoErr
    /\ Len(Chain(heap, tr.result).cells) = 2
    /\ Car(heap, tr.result) # Car(heap, Cdr(heap, tr.result))

\* The errors a traversal may meet that carry no position yet: the failure of
\* a caller-supplied function, and MapPairs' own invalid-list error.
BareErrs == {CallbackErr, ErrorInvalidList}

\* err is a bare error behind exactly one "<position>: " prefix.
OnePrefix(err) ==
    \E point \in 1..MaxPoint, e \in BareErrs :
        err.msg = PointString(point) \o ": " \o e.msg

\* C11: location enrichment happens exactly once.  When a traversal returns
\* because its function returned an error at a pair that carries a source
\* position, also when that function ran a nested traversal over the pair's
\* element, the error returned carries exactly one "<position>: " prefix.
C11_EnrichedOnce ==
    (tr.pc = "ret" /\ tr.cberr # NoErr /\ heap[tr.pair.v].loc) => OnePrefix(tr.err)

\* The tails from v come back to a pair already met.
CyclicChain(h, v) == Chain(h, v).end = "cycle"

\* No cycle detection: a loop iteration on a cyclic chain whose function did
\* not fail leaves the traversal in its loop, on a cyclic chain; so a
\* traversal that has returned from a cyclic chain is one whose function
\* failed.
NeverReturnsOnCycle ==
    /\ [](tr.pc = "ret" /\ CyclicChain(heap, tr.list) => tr.cberr # NoErr)
    /\ [][(tr.pc = "loop" /\ CyclicChain(heap, tr.pair) /\ tr' # tr /\ tr'.cberr = NoErr)
            => (tr'.pc = "loop" /\ CyclicChain(heap', tr'.pair))]_vars

\* The traversal is on a chain without a cycle.
OnAcyclicChain == tr.pc = "loop" /\ ~CyclicChain(heap, tr.list)

\* C12 (as claimed): Map / MapPairs, and so length, list? and reverse,
\* terminate on every pair chain that is acyclic: the traversal leaves its
\* loop and the call then returns to its caller; and there is no cycle
\* detection.
C12_Original ==
    /\ OnAcyclicChain ~> tr.pc = "ret"
    /\ [](tr.pc = "ret" /\ ~CyclicChain(heap, tr.list) => ENABLED Return)
    /\ NeverReturnsOnCycle

\* C12 (amended): Map / MapPairs, list? and reverse terminate on every pair
\* chain that is acyclic, and length does when moreover the chain is a proper
\* list or no pair reachable from its argument lies on a cycle (the error of
\* length renders the argument); there is no cycle detection: on a chain
\* that set-cdr! made cyclic a traversal whose function does not fail never
\* returns.
C12_NoCycleDetection ==
    /\ OnAcyclicChain ~> tr.pc = "ret"
    /\ (/\ OnAcyclicChain
        /\ tr.fn = "length" => (ProperList(heap, tr.list) \/ Acyclic(heap, tr.list)))
            ~> tr.pc = "idle"
    /\ NeverReturnsOnCycle

\* C12 witness: length has gone round a chain that set-cdr! made cyclic more
\* than once and is still in its loop.
C12_Witness ==
    /\ tr.pc = "loop" /\ tr.fn = "length"
    /\ CyclicChain(heap, tr.list)
    /\ tr.idx > Len(heap)
    /\ \E a \in 1..Len(heap) : heap[a].cdr = Ref(a)
====
